---- MODULE Spec2Model ----
(***************************************************************************)
(* GRANDPA finality proofs (client/finality-grandpa/src/finality_proof.rs) *)
(*                                                                         *)
(* The module models the proof assembler prove_finality, the provider      *)
(* facade FinalityProofProvider::prove_finality and the verifier           *)
(* check_finality_proof, together with the backend operations the tests of *)
(* finality_proof.rs use to build a chain (import, finalize_block with or  *)
(* without a justification, store_best_justification, append to the        *)
(* authority set changes).                                                 *)
(*                                                                         *)
(* Byte strings are sequences of naturals.  A hash is one element, a       *)
(* length prefix is one element.                                           *)
(***************************************************************************)
EXTENDS Integers, Sequences, FiniteSets, TLC

\* ---------------------------------------------------------------- bounds
\* Highest block number a chain is grown to.
MaxBlocks == 3
\* Highest number of entries of the authority set changes.
MaxChanges == 2
\* Highest set id the first entry of a log may carry.
MaxFirstSetId == 1

\* ------------------------------------------------------- program constants
\* finality_proof.rs:60 sets 100_000; the model keeps the constant and
\* scales its value so that chains longer than the cap are explored.
MAX_UNKNOWN_HEADERS == 2

GRANDPA_ENGINE_ID == "FRNK"
OTHER_ENGINE_ID == "BABE"

VARIABLES
    best_number,            \* number of the best imported block (genesis is 0)
    finalized_number,       \* info.finalized_number of the backend
    justifications,         \* block number -> stored justification, or NoJustification
    best_justification,     \* aux-stored best GrandpaJustification, or NoBest
    authority_set_changes,  \* the log: sequence of <<set_id, last_block>>
    request,                \* the last call made on the current backend state
    result,                 \* what that call returned
    pc, loop_block, just_block, justification, current, headers, loop_result,
                            \* the header collection loop, step by step
    check_pc, current_set_id, current_authorities, remote_proof, check_result
                            \* check_finality_proof and its arguments

backend_vars == <<best_number, finalized_number, justifications, best_justification>>
call_vars == <<request, result>>
loop_vars == <<pc, loop_block, just_block, justification, current, headers, loop_result>>
check_vars == <<check_pc, current_set_id, current_authorities, remote_proof, check_result>>
vars == <<backend_vars, authority_set_changes, call_vars, loop_vars, check_vars>>

\* ------------------------------------------------------------ chain data
\* Block hashes are opaque identifiers, one per block number of the one chain.
HashOf(n) == 10 + 3 * n

\* tests::header: a header carries its number and its parent's hash.
Header(n) == [parent_hash |-> IF n = 0 THEN 0 ELSE HashOf(n - 1), number |-> n]

NoJustification == [engine |-> "", bytes |-> <<>>]
NoBest == [round |-> 0, target_hash |-> 0, target_number |-> 0, precommits |-> <<>>, present |-> FALSE]

\* Justifications::into_justification(engine_id): the bytes stored under the
\* engine id, if any.
into_justification(j, engine_id) ==
    IF j.engine = engine_id THEN [some |-> TRUE, bytes |-> j.bytes]
    ELSE [some |-> FALSE, bytes |-> <<>>]

\* ------------------------------------------------------------- encoding
RECURSIVE encode_headers(_)
encode_headers(hs) ==
    IF hs = <<>> THEN <<>>
    ELSE <<Head(hs).parent_hash, Head(hs).number>> \o encode_headers(Tail(hs))

\* #[derive(Encode)] for FinalityProof: the fields in order, each vector
\* prefixed by its length.
FinalityProof_encode(proof) ==
    <<proof.block>>
        \o <<Len(proof.justification)>> \o proof.justification
        \o <<Len(proof.unknown_headers)>> \o encode_headers(proof.unknown_headers)

NoProof == [block |-> 0, justification |-> <<>>, unknown_headers |-> <<>>]

\* #[derive(Decode)] for FinalityProof: fails when the input ends early;
\* bytes after the last field are left unread.
FinalityProof_decode(bytes) ==
    IF Len(bytes) < 2 THEN [ok |-> FALSE, proof |-> NoProof]
    ELSE LET jl == bytes[2] IN
        IF Len(bytes) < 3 + jl THEN [ok |-> FALSE, proof |-> NoProof]
        ELSE LET hl == bytes[3 + jl] IN
            IF Len(bytes) < 3 + jl + 2 * hl THEN [ok |-> FALSE, proof |-> NoProof]
            ELSE [ok |-> TRUE,
                  proof |-> [block |-> bytes[1],
                             justification |-> SubSeq(bytes, 3, 2 + jl),
                             unknown_headers |->
                                 [i \in 1..hl |->
                                     [parent_hash |-> bytes[3 + jl + 2 * i - 1],
                                      number |-> bytes[3 + jl + 2 * i]]]]]

RECURSIVE encode_precommits(_)
encode_precommits(ps) ==
    IF ps = <<>> THEN <<>>
    ELSE <<Head(ps).target_hash, Head(ps).target_number, Head(ps).signature, Head(ps).id>>
             \o encode_precommits(Tail(ps))

\* GrandpaJustification::encode: round, commit (target and signed
\* precommits), votes ancestries (none on the single chain).
GrandpaJustification_encode(j) ==
    <<j.round, j.target_hash, j.target_number, Len(j.precommits)>>
        \o encode_precommits(j.precommits) \o <<0>>

\* ------------------------------------------------------ authority set log
Latest == [tag |-> "Latest", set_id |-> 0, last_block |-> 0]
Unknown == [tag |-> "Unknown", set_id |-> 0, last_block |-> 0]
Set(id, n) == [tag |-> "Set", set_id |-> id, last_block |-> n]

\* AuthoritySetChanges::get_set_id: Latest when the block is above every
\* recorded last block (so also when nothing is recorded), otherwise the
\* first entry whose last block is not below it; Unknown when that entry is
\* the first of the log and is not set 0, the lower bound of its epoch being
\* unrecorded.
get_set_id(changes, block_number) ==
    IF \A i \in 1..Len(changes) : changes[i][2] < block_number
    THEN Latest
    ELSE LET idx == CHOOSE i \in 1..Len(changes) :
                        /\ changes[i][2] >= block_number
                        /\ \A k \in 1..(i - 1) : changes[k][2] < block_number
         IN IF idx = 1 /\ changes[idx][1] # 0
            THEN Unknown
            ELSE Set(changes[idx][1], changes[idx][2])

\* ---------------------------------------------------------------- results
OkNone == [kind |-> "OkNone", err |-> "", bytes |-> <<>>]
OkSome(b) == [kind |-> "OkSome", err |-> "", bytes |-> b]
Err(e) == [kind |-> "Err", err |-> e, bytes |-> <<>>]
NoResult == [kind |-> "NoResult", err |-> "", bytes |-> <<>>]

\* ------------------------------------------------------------ the backend
\* HeaderBackend::expect_header / expect_block_hash_from_id succeed for the
\* imported blocks only.
has_block(n) == n \in 0..best_number

\* ---------------------------------------------------------- prove_finality
\* Faulty variant: the bound check is off by one block.
block_not_yet_finalized_off_by_one(finalized, block) == finalized + 1 < block

\* finality_proof.rs:168
block_not_yet_finalized(finalized, block) == finalized < block

\* finality_proof.rs:226
first_unknown(block) == block + 1

\* Faulty variant: the loop guard without the count check.
loop_break_uncapped(cur, last, hs) == cur > last

\* finality_proof.rs:228
loop_break(cur, last, hs) == cur > last \/ Len(hs) >= MAX_UNKNOWN_HEADERS

\* finality_proof.rs:224-235: the loop; fails when a header is missing.
RECURSIVE collect_headers(_, _, _)
collect_headers(cur, last, hs) ==
    IF loop_break(cur, last, hs) THEN [ok |-> TRUE, headers |-> hs]
    ELSE IF ~has_block(cur) THEN [ok |-> FALSE, headers |-> hs]
    ELSE collect_headers(cur + 1, last, Append(hs, Header(cur)))

Found(bytes, block) == [outcome |-> "found", bytes |-> bytes, block |-> block]
NotFound == [outcome |-> "none", bytes |-> <<>>, block |-> 0]
NotCovered == [outcome |-> "unknown", bytes |-> <<>>, block |-> 0]

\* finality_proof.rs:179-192: the Latest arm.
select_latest ==
    IF best_justification.present
    THEN Found(GrandpaJustification_encode(best_justification),
               best_justification.target_number)
    ELSE NotFound

\* Faulty variant: the justification stored for the block, whatever engine it is
\* tagged with.
select_set_any_engine(last_block_for_set) ==
    IF justifications[last_block_for_set].engine # ""
    THEN Found(justifications[last_block_for_set].bytes, last_block_for_set)
    ELSE NotFound

\* Faulty variant: the best justification, when one is stored, instead of the one of
\* the last block of the set.
select_set_prefers_best(last_block_for_set) ==
    IF best_justification.present THEN select_latest
    ELSE LET j == into_justification(justifications[last_block_for_set], GRANDPA_ENGINE_ID)
         IN IF j.some THEN Found(j.bytes, last_block_for_set) ELSE NotFound

\* finality_proof.rs:193-211: the Set arm.
select_set(last_block_for_set) ==
    LET j == into_justification(justifications[last_block_for_set], GRANDPA_ENGINE_ID)
    IN IF j.some THEN Found(j.bytes, last_block_for_set) ELSE NotFound

\* Faulty variant: a gap in the log handled as the latest set.
select_unknown_as_latest == select_latest

\* finality_proof.rs:212-220: the Unknown arm.
select_unknown == NotCovered

\* finality_proof.rs:223-244
assemble(block, bytes, last) ==
    LET unknown_headers == collect_headers(first_unknown(block), last, <<>>)
    IN IF ~unknown_headers.ok \/ ~has_block(last) THEN Err("Client")
       ELSE OkSome(FinalityProof_encode(
                [block |-> HashOf(last),
                 justification |-> bytes,
                 unknown_headers |-> unknown_headers.headers]))

\* finality_proof.rs:156-245
prove_finality(changes, block) ==
    IF block_not_yet_finalized(finalized_number, block)
    THEN Err("BlockNotYetFinalized")
    ELSE LET id == get_set_id(changes, block)
             sel == CASE id.tag = "Latest" -> select_latest
                      [] id.tag = "Set" -> select_set(id.last_block)
                      [] id.tag = "Unknown" -> select_unknown
         IN CASE sel.outcome = "unknown" -> Err("BlockNotInAuthoritySetChanges")
              [] sel.outcome = "none" -> OkNone
              [] sel.outcome = "found" -> assemble(block, sel.bytes, sel.block)

\* Faulty variant: without a shared authority set, the assembler on an empty log.
FinalityProofProvider_prove_finality_always(shared_authority_set, block) ==
    prove_finality(shared_authority_set.changes, block)

\* finality_proof.rs:107-126
FinalityProofProvider_prove_finality(shared_authority_set, block) ==
    IF ~shared_authority_set.some THEN OkNone
    ELSE prove_finality(shared_authority_set.changes, block)

\* ------------------------------------------------------ check_finality_proof
NoGrandpaJustification ==
    [round |-> 0, target_hash |-> 0, target_number |-> 0, precommits |-> <<>>, ancestries |-> 0]

\* GrandpaJustification::decode: the reverse of the encoding; fails when the
\* input ends early.
GrandpaJustification_decode(bytes) ==
    IF Len(bytes) < 4 THEN [ok |-> FALSE, val |-> NoGrandpaJustification]
    ELSE LET n == bytes[4] IN
        IF Len(bytes) < 5 + 4 * n THEN [ok |-> FALSE, val |-> NoGrandpaJustification]
        ELSE LET a == bytes[5 + 4 * n] IN
            IF Len(bytes) < 5 + 4 * n + 2 * a THEN [ok |-> FALSE, val |-> NoGrandpaJustification]
            ELSE [ok |-> TRUE,
                  val |-> [round |-> bytes[1],
                           target_hash |-> bytes[2],
                           target_number |-> bytes[3],
                           precommits |->
                               [i \in 1..n |->
                                   [target_hash |-> bytes[4 * i + 1],
                                    target_number |-> bytes[4 * i + 2],
                                    signature |-> bytes[4 * i + 3],
                                    id |-> bytes[4 * i + 4]]],
                           ancestries |-> a]]

\* The signature of authority id on the precommit for target_hash, localized
\* to (round, set_id) as sp_finality_grandpa::localized_payload does.
Sign(id, round, set_id, target_hash) ==
    ((id * 10 + round) * 10 + set_id) * 100 + target_hash

\* The number of votes a commit needs among n equally weighted voters.
Threshold(n) == n - ((n - 1) \div 3)

\* GrandpaJustification::verify(set_id, authorities): the authority list is
\* a voter set, the precommits of voters on the commit target reach the
\* threshold, every signature is valid for (round, set_id), every precommit
\* is on the commit target (no ancestry is supplied to route through), and no
\* ancestry header is left unused.
verify(j, set_id, authorities) ==
    /\ authorities # {}
    /\ Cardinality({j.precommits[i].id : i \in
                       {k \in 1..Len(j.precommits) :
                            /\ j.precommits[k].id \in authorities
                            /\ j.precommits[k].target_hash = j.target_hash}})
           >= Threshold(Cardinality(authorities))
    /\ \A i \in 1..Len(j.precommits) :
           /\ j.precommits[i].signature =
                  Sign(j.precommits[i].id, j.round, set_id, j.precommits[i].target_hash)
           /\ j.precommits[i].target_hash = j.target_hash
    /\ j.ancestries = 0

CheckOk(proof) == [ok |-> TRUE, err |-> "", proof |-> proof]
CheckErr(e) == [ok |-> FALSE, err |-> e, proof |-> NoProof]

\* Faulty variant: the justification is decoded and not verified.
justification_unverified(j, set_id, authorities) == TRUE

\* finality_proof.rs:267
justification_verifies(j, set_id, authorities) == verify(j, set_id, authorities)

\* finality_proof.rs:254-270
check_finality_proof(set_id, authorities, bytes) ==
    LET proof == FinalityProof_decode(bytes) IN
    IF ~proof.ok THEN CheckErr("BadJustification")
    ELSE LET j == GrandpaJustification_decode(proof.proof.justification) IN
         IF ~j.ok THEN CheckErr("JustificationDecode")
         ELSE IF ~justification_verifies(j.val, set_id, authorities)
              THEN CheckErr("BadJustification")
              ELSE CheckOk(proof.proof)

\* ------------------------------------------------- the chain being built
NoRequest == [fn |-> "none", block |-> 0, shared |-> FALSE]

LoopIdle ==
    /\ pc = "idle" /\ loop_block = 0 /\ just_block = 0 /\ justification = <<>>
    /\ current = 0 /\ headers = <<>> /\ loop_result = NoResult

CheckIdle ==
    /\ check_pc = "idle" /\ current_set_id = 0 /\ current_authorities = {}
    /\ remote_proof = <<>> /\ check_result = CheckErr("")

\* TestClientBuilder::new().build(): genesis only, finalized, nothing stored.
Init ==
    /\ best_number = 0
    /\ finalized_number = 0
    /\ justifications = [n \in 0..(MaxBlocks + 1) |-> NoJustification]
    /\ best_justification = NoBest
    /\ authority_set_changes = <<>>
    /\ request = NoRequest
    /\ result = NoResult
    /\ LoopIdle
    /\ CheckIdle

\* tests::test_blockchain: build and import the next block.
ImportBlock ==
    /\ best_number < MaxBlocks
    /\ best_number' = best_number + 1
    /\ request' = NoRequest /\ result' = NoResult
    /\ UNCHANGED <<finalized_number, justifications, best_justification,
                   authority_set_changes, loop_vars, check_vars>>

\* client.finalize_block(BlockId::Number(n), justification): with a
\* justification under some engine id (the tests store the encoded block
\* number), or with None.
FinalizeBlock(n, engine) ==
    /\ n \in (finalized_number + 1)..best_number
    /\ finalized_number' = n
    /\ justifications' =
           IF engine = "" THEN justifications
           ELSE [justifications EXCEPT ![n] = [engine |-> engine, bytes |-> <<n>>]]
    /\ request' = NoRequest /\ result' = NoResult
    /\ UNCHANGED <<best_number, best_justification, authority_set_changes,
                   loop_vars, check_vars>>

\* tests::store_best_justification, with the justification the tests build
\* from a commit on the block just finalized (no precommits, round = number).
store_best_justification ==
    /\ finalized_number > 0
    /\ best_justification' =
           [round |-> finalized_number,
            target_hash |-> HashOf(finalized_number),
            target_number |-> finalized_number,
            precommits |-> <<>>,
            present |-> TRUE]
    /\ best_justification' # best_justification
    /\ request' = NoRequest /\ result' = NoResult
    /\ UNCHANGED <<best_number, finalized_number, justifications,
                   authority_set_changes, loop_vars, check_vars>>

\* AuthoritySetChanges::append(set_id, block_number), as the tests and the
\* import pipeline call it: set ids consecutive, block numbers of finalized
\* blocks, strictly increasing; the first entry may be a later set than 0.
append(set_id, block_number) ==
    /\ Len(authority_set_changes) < MaxChanges
    /\ block_number \in 1..finalized_number
    /\ IF authority_set_changes = <<>>
       THEN set_id \in 0..MaxFirstSetId
       ELSE LET last == authority_set_changes[Len(authority_set_changes)]
            IN set_id = last[1] + 1 /\ block_number > last[2]
    /\ authority_set_changes' = Append(authority_set_changes, <<set_id, block_number>>)
    /\ request' = NoRequest /\ result' = NoResult
    /\ UNCHANGED <<backend_vars, loop_vars, check_vars>>

\* A direct call of the assembler, as the tests make it.
CallProveFinality(block) ==
    /\ request' = [fn |-> "prove_finality", block |-> block, shared |-> TRUE]
    /\ result' = prove_finality(authority_set_changes, block)
    /\ UNCHANGED <<backend_vars, authority_set_changes, loop_vars, check_vars>>

\* FinalityProofProvider::new(backend, shared_authority_set).prove_finality(block);
\* a configured shared set hands out a clone of the current log.
CallProvider(block, configured) ==
    /\ request' = [fn |-> "provider", block |-> block, shared |-> configured]
    /\ result' = FinalityProofProvider_prove_finality(
                     [some |-> configured,
                      changes |-> IF configured THEN authority_set_changes ELSE <<>>],
                     block)
    /\ UNCHANGED <<backend_vars, authority_set_changes, loop_vars, check_vars>>

Next ==
    \/ ImportBlock
    \/ \E n \in 1..MaxBlocks, engine \in {"", GRANDPA_ENGINE_ID, OTHER_ENGINE_ID} :
           FinalizeBlock(n, engine)
    \/ store_best_justification
    \/ \E set_id \in 0..(MaxFirstSetId + MaxChanges), n \in 1..MaxBlocks : append(set_id, n)
    \/ \E block \in 0..(MaxBlocks + 1) : CallProveFinality(block)
    \/ \E block \in 0..(MaxBlocks + 1), configured \in BOOLEAN : CallProvider(block, configured)

Spec == Init /\ [][Next]_vars

\* --------------------------------------- the header collection loop, stepwise
\* The stored justifications the tests hand to the loop: vec![42], the
\* encoded block number, the encoded best justification.
LoopJustifications(n) ==
    { <<42>>, <<n>>,
      GrandpaJustification_encode(
          [round |-> n, target_hash |-> HashOf(n), target_number |-> n, precommits |-> <<>>]) }

\* finality_proof.rs:223-226: entry of the loop, on a chain of MaxBlocks
\* finalized blocks, for a requested block and a justified block.
LoopInit ==
    /\ best_number = MaxBlocks
    /\ finalized_number = MaxBlocks
    /\ justifications = [n \in 0..(MaxBlocks + 1) |-> NoJustification]
    /\ best_justification = NoBest
    /\ authority_set_changes = <<>>
    /\ request = NoRequest
    /\ result = NoResult
    /\ CheckIdle
    /\ pc = "loop"
    /\ loop_block \in 0..MaxBlocks
    /\ just_block \in 0..MaxBlocks
    /\ justification \in LoopJustifications(just_block)
    /\ current = first_unknown(loop_block)
    /\ headers = <<>>
    /\ loop_result = NoResult

\* finality_proof.rs:231-232: one iteration that does not break.
LoopStep ==
    /\ pc = "loop"
    /\ ~loop_break(current, just_block, headers)
    /\ IF has_block(current)
       THEN /\ headers' = Append(headers, Header(current))
            /\ current' = current + 1
            /\ UNCHANGED <<pc, loop_result>>
       ELSE /\ pc' = "done"
            /\ loop_result' = Err("Client")
            /\ UNCHANGED <<headers, current>>
    /\ UNCHANGED <<backend_vars, authority_set_changes, call_vars, check_vars,
                   loop_block, just_block, justification>>

\* finality_proof.rs:228-230 and 237-244: the break and the return.
LoopBreak ==
    /\ pc = "loop"
    /\ loop_break(current, just_block, headers)
    /\ pc' = "done"
    /\ loop_result' =
           IF ~has_block(just_block) THEN Err("Client")
           ELSE OkSome(FinalityProof_encode(
                    [block |-> HashOf(just_block),
                     justification |-> justification,
                     unknown_headers |-> headers]))
    /\ UNCHANGED <<backend_vars, authority_set_changes, call_vars, check_vars,
                   loop_block, just_block, justification, current, headers>>

LoopNext == LoopStep \/ LoopBreak

\* The call is synchronous: once entered, the loop keeps running.
LoopSpec == LoopInit /\ [][LoopNext]_vars /\ WF_vars(LoopNext)

\* ------------------------------------------- check_finality_proof, applied
\* Ed25519Keyring::Alice, and the authority of the decode tests ([3u8; 32]).
Alice == 1
Bob == 3

\* GrandpaJustification::from_commit on the commit the given authorities
\* signed for block n in round 1 of set set_id.
SignedJustification(n, set_id, signers) ==
    [round |-> 1, target_hash |-> HashOf(n), target_number |-> n,
     precommits |-> [i \in 1..Len(signers) |->
                        [target_hash |-> HashOf(n), target_number |-> n,
                         signature |-> Sign(signers[i], 1, set_id, HashOf(n)),
                         id |-> signers[i]]]]

\* The encoded justifications offered to the verifier: signed by none, one
\* or both authorities under set 0 or 1, and bytes that are no justification.
CheckJustifications ==
    { GrandpaJustification_encode(SignedJustification(MaxBlocks, s, signers)) :
          s \in 0..1, signers \in {<<>>, <<Alice>>, <<Alice, Bob>>} }
        \cup { <<42>> }

\* The remote proofs offered to the verifier: encoded proofs naming the
\* justified block or another one, and bytes that are no proof.
RemoteProofs ==
    { FinalityProof_encode([block |-> HashOf(b), justification |-> j, unknown_headers |-> hs]) :
          b \in {MaxBlocks - 1, MaxBlocks},
          j \in CheckJustifications,
          hs \in {<<>>, <<Header(MaxBlocks)>>} }
        \cup { <<42>>, <<0>> }

CheckInit ==
    /\ best_number = 0
    /\ finalized_number = 0
    /\ justifications = [n \in 0..(MaxBlocks + 1) |-> NoJustification]
    /\ best_justification = NoBest
    /\ authority_set_changes = <<>>
    /\ request = NoRequest
    /\ result = NoResult
    /\ LoopIdle
    /\ check_pc = "call"
    /\ current_set_id \in 0..1
    /\ current_authorities \in SUBSET {Alice, Bob}
    /\ remote_proof \in RemoteProofs
    /\ check_result = CheckErr("")

CheckFinalityProof ==
    /\ check_pc = "call"
    /\ check_pc' = "done"
    /\ check_result' = check_finality_proof(current_set_id, current_authorities, remote_proof)
    /\ UNCHANGED <<backend_vars, authority_set_changes, call_vars, loop_vars,
                   current_set_id, current_authorities, remote_proof>>

CheckNext == CheckFinalityProof

CheckSpec == CheckInit /\ [][CheckNext]_vars

\* ================================================================ properties
\* The last call reached the assembler: it was made on prove_finality, or on
\* a provider with a shared authority set.
AssemblerCalled ==
    \/ request.fn = "prove_finality"
    \/ request.fn = "provider" /\ request.shared

\* The lookup outcome of the requested block in the log the call was given.
RequestedSetId == get_set_id(authority_set_changes, request.block)

\* The proof a call returned, decoded.
ReturnedProof == FinalityProof_decode(result.bytes).proof

\* The block number a hash names.
NumberOfHash(h) == CHOOSE n \in 0..(MaxBlocks + 1) : HashOf(n) = h

\* The number of the block F a returned proof names.
ReturnedF == NumberOfHash(ReturnedProof.block)

\* The headers header(from + 1), ..., header(to) in ascending order.
HeaderRange(from, to) == [i \in 1..(to - from) |-> Header(from + i)]

\* The epoch of block b under a log: the position of the recorded epoch
\* whose interval (previous last_block, last_block] holds b, and the position
\* after the last entry for the open epoch.
EpochOf(changes, b) ==
    IF \A i \in 1..Len(changes) : changes[i][2] < b
    THEN Len(changes) + 1
    ELSE CHOOSE i \in 1..Len(changes) :
             /\ b <= changes[i][2]
             /\ (i > 1 => changes[i - 1][2] < b)

\* C1: a request for a block above the finalized tip returns
\* Err(BlockNotYetFinalized), whatever the log and the backend hold, from the
\* assembler and from a provider with a shared authority set.
C1_BlockNotYetFinalized ==
    (AssemblerCalled /\ request.block > finalized_number)
        => result = Err("BlockNotYetFinalized")

C1_Witness ==
    /\ request.fn = "provider" /\ request.shared
    /\ request.block > finalized_number
    /\ authority_set_changes # <<>>
    /\ best_justification.present
    /\ result = Err("BlockNotYetFinalized")

\* C2: a request for a finalized block whose lookup in the log is Unknown
\* returns Err(BlockNotInAuthoritySetChanges), never Ok(None) and never a
\* proof, whatever justifications are stored.
C2_UnknownIsHardError ==
    (AssemblerCalled /\ request.block <= finalized_number
        /\ RequestedSetId.tag = "Unknown")
        => result = Err("BlockNotInAuthoritySetChanges")

C2_Witness ==
    /\ AssemblerCalled
    /\ request.block <= finalized_number
    /\ RequestedSetId.tag = "Unknown"
    /\ best_justification.present
    /\ justifications[authority_set_changes[1][2]].engine = GRANDPA_ENGINE_ID
    /\ result = Err("BlockNotInAuthoritySetChanges")

\* C3: a request for a finalized block returns Ok(None) when the lookup is
\* Set(_, last_block) and no GRANDPA-tagged justification is stored for
\* last_block, or the lookup is Latest and no best justification is stored,
\* also when other blocks carry justifications.
C3_NoJustificationIsOkNone ==
    (AssemblerCalled /\ request.block <= finalized_number
        /\ \/ /\ RequestedSetId.tag = "Set"
              /\ justifications[RequestedSetId.last_block].engine # GRANDPA_ENGINE_ID
           \/ /\ RequestedSetId.tag = "Latest"
              /\ ~best_justification.present)
        => result = OkNone

C3_Witness ==
    /\ AssemblerCalled
    /\ request.block <= finalized_number
    /\ RequestedSetId.tag = "Set"
    /\ RequestedSetId.last_block > request.block
    /\ justifications[RequestedSetId.last_block].engine # GRANDPA_ENGINE_ID
    /\ justifications[request.block].engine = GRANDPA_ENGINE_ID
    /\ result = OkNone

\* C4 as claimed: in a returned proof of B that names F with F - B within the
\* cap, unknown_headers is header(B+1), ..., header(F), has length F - B, does
\* not hold header(B), and is empty when B = F.
C4_HeaderRange ==
    (AssemblerCalled /\ result.kind = "OkSome"
        /\ ReturnedF - request.block <= MAX_UNKNOWN_HEADERS)
        => /\ ReturnedProof.unknown_headers = HeaderRange(request.block, ReturnedF)
           /\ Len(ReturnedProof.unknown_headers) = ReturnedF - request.block
           /\ \A i \in 1..Len(ReturnedProof.unknown_headers) :
                  ReturnedProof.unknown_headers[i] # Header(request.block)
           /\ (request.block = ReturnedF => ReturnedProof.unknown_headers = <<>>)

\* C5: in a returned proof, under Set(_, last_block) the block is
\* hash(last_block) and the justification is the bytes stored for last_block
\* under the GRANDPA engine id, not the best justification; under Latest the
\* justification is the encoded best justification and the block is the hash
\* of its target number.
C5_JustificationSelection ==
    (AssemblerCalled /\ result.kind = "OkSome")
        => /\ RequestedSetId.tag = "Set" =>
                  /\ ReturnedProof.block = HashOf(RequestedSetId.last_block)
                  /\ justifications[RequestedSetId.last_block].engine = GRANDPA_ENGINE_ID
                  /\ ReturnedProof.justification =
                         justifications[RequestedSetId.last_block].bytes
           /\ RequestedSetId.tag = "Latest" =>
                  /\ best_justification.present
                  /\ ReturnedProof.justification =
                         GrandpaJustification_encode(best_justification)
                  /\ ReturnedProof.block = HashOf(best_justification.target_number)

C5_Witness ==
    /\ AssemblerCalled
    /\ result.kind = "OkSome"
    /\ RequestedSetId.tag = "Set"
    /\ best_justification.present
    /\ best_justification.target_number # RequestedSetId.last_block
    /\ ReturnedProof.justification = justifications[RequestedSetId.last_block].bytes

\* C6 as claimed: the block F a returned proof names is the requested block
\* or a descendant of it.
C6_ProofNamesDescendant ==
    (AssemblerCalled /\ result.kind = "OkSome") => ReturnedF >= request.block

\* C7 as claimed: the block F a returned proof names belongs to the epoch of
\* the requested block.
C7_SameEpoch ==
    (AssemblerCalled /\ result.kind = "OkSome")
        => EpochOf(authority_set_changes, ReturnedF)
               = EpochOf(authority_set_changes, request.block)

\* C8: a provider without a shared authority set returns Ok(None) for every
\* block and backend state; a provider with one returns what the assembler
\* returns for the snapshot of the log.
C8_ProviderFacade ==
    request.fn = "provider"
        => IF request.shared
           THEN result = prove_finality(authority_set_changes, request.block)
           ELSE result = OkNone

C8_Witness ==
    /\ request.fn = "provider"
    /\ ~request.shared
    /\ request.block > finalized_number
    /\ authority_set_changes # <<>>
    /\ best_justification.present
    /\ result = OkNone

\* C9: the header collection loop terminates for every B and F, the returned
\* unknown_headers never has more than MAX_UNKNOWN_HEADERS entries, and when
\* F - B exceeds the cap the call returns a proof with the lowest
\* MAX_UNKNOWN_HEADERS headers above B and with block = hash(F).
C9_LoopReturned ==
    pc = "done" =>
        LET proof == FinalityProof_decode(loop_result.bytes).proof IN
        /\ Len(proof.unknown_headers) <= MAX_UNKNOWN_HEADERS
        /\ just_block - loop_block > MAX_UNKNOWN_HEADERS =>
               /\ loop_result.kind = "OkSome"
               /\ proof.unknown_headers =
                      HeaderRange(loop_block, loop_block + MAX_UNKNOWN_HEADERS)
               /\ proof.block = HashOf(just_block)

C9_BoundedLoop == <>(pc = "done") /\ []C9_LoopReturned

C9_Witness ==
    /\ pc = "done"
    /\ just_block - loop_block > MAX_UNKNOWN_HEADERS
    /\ loop_result.kind = "OkSome"
    /\ Len(headers) = MAX_UNKNOWN_HEADERS

\* The justification a checked proof embeds, decoded.
CheckedJustification ==
    GrandpaJustification_decode(FinalityProof_decode(remote_proof).proof.justification)

\* C10 as claimed: when check_finality_proof returns Ok(proof), the embedded
\* justification decoded and verified against (set_id, authorities), the
\* proof is the decoding of the bytes, and its block field is the hash of the
\* block the justification targets.
C10_CheckEstablishesNamedBlock ==
    (check_pc = "done" /\ check_result.ok)
        => /\ FinalityProof_decode(remote_proof).ok
           /\ check_result.proof = FinalityProof_decode(remote_proof).proof
           /\ CheckedJustification.ok
           /\ verify(CheckedJustification.val, current_set_id, current_authorities)
           /\ check_result.proof.block = CheckedJustification.val.target_hash

\* C10 as amended: when check_finality_proof returns Ok(proof), the embedded
\* justification decoded and verified against (set_id, authorities) and the
\* proof is the decoding of the bytes; the block field is not compared with
\* the target of the justification.
C10_CheckVerifiesJustification ==
    (check_pc = "done" /\ check_result.ok)
        => /\ FinalityProof_decode(remote_proof).ok
           /\ check_result.proof = FinalityProof_decode(remote_proof).proof
           /\ CheckedJustification.ok
           /\ verify(CheckedJustification.val, current_set_id, current_authorities)

C10_Witness ==
    /\ check_pc = "done"
    /\ check_result.ok
    /\ check_result.proof.block # CheckedJustification.val.target_hash
    /\ check_result.proof.unknown_headers # <<>>

====
